---- MODULE Spec2Model ----
(***************************************************************************)
(* fuzz-exporter (src/src/main.rs): a libFuzzer log scraper that parses    *)
(* progress lines and republishes them as Prometheus gauges.               *)
(*                                                                         *)
(* Text is a sequence of one-character strings.  Numbers are unbounded     *)
(* naturals written as five little-endian limbs of 16 bits, so that the    *)
(* u32 and u64 fields of the program keep their real width: a u32 uses     *)
(* limbs 1..2, a u64 limbs 1..4, and limb 5 holds what overflows a u64.    *)
(***************************************************************************)
EXTENDS Integers, Sequences, FiniteSets, TLC

(***************************************************************************)
(* Arithmetic on limbs                                                     *)
(***************************************************************************)
Base == 256 * 256

Big(l1, l2, l3, l4, l5) == <<l1, l2, l3, l4, l5>>

Zero == Big(0, 0, 0, 0, 0)

\* A natural below 2^31 as limbs.
Small(n) == Big(n % Base, n \div Base, 0, 0, 0)

\* x * m + a, for a multiplier and an addend below Base * Base / 2.
MulAdd(x, m, a) ==
  LET t1 == x[1] * m + a
      t2 == x[2] * m + (t1 \div Base)
      t3 == x[3] * m + (t2 \div Base)
      t4 == x[4] * m + (t3 \div Base)
      t5 == x[5] * m + (t4 \div Base)
  IN  Big(t1 % Base, t2 % Base, t3 % Base, t4 % Base, t5 % Base)

Add(x, y) ==
  LET t1 == x[1] + y[1]
      t2 == x[2] + y[2] + (t1 \div Base)
      t3 == x[3] + y[3] + (t2 \div Base)
      t4 == x[4] + y[4] + (t3 \div Base)
      t5 == x[5] + y[5] + (t4 \div Base)
  IN  Big(t1 % Base, t2 % Base, t3 % Base, t4 % Base, t5 % Base)

Less(x, y) ==
  \E i \in 1..5 : x[i] < y[i] /\ \A j \in (i + 1)..5 : x[j] = y[j]

FitsU32(x) == x[3] = 0 /\ x[4] = 0 /\ x[5] = 0

FitsU64(x) == x[5] = 0

\* The low 32 (64) bits: what a wrapping u32 (u64) operation keeps.
WrapU32(x) == Big(x[1], x[2], 0, 0, 0)

WrapU64(x) == Big(x[1], x[2], x[3], x[4], 0)

Pow2(k) == IF k = 0 THEN 1 ELSE 2 ^ k

\* Number of significant bits of a limb and of a number.
LimbBits(l) == IF l = 0 THEN 0 ELSE CHOOSE b \in 1..16 : Pow2(b - 1) <= l /\ l < Pow2(b)

BitLen(x) ==
  IF x = Zero THEN 0
  ELSE LET t == CHOOSE i \in 1..5 : x[i] # 0 /\ \A j \in (i + 1)..5 : x[j] = 0
       IN  16 * (t - 1) + LimbBits(x[t])

\* `value as f64`: the nearest double, ties to even.  A double carries 53
\* significant bits, so a natural of more bits loses its low ones.
AsF64(x) ==
  LET k == BitLen(x) - 53
  IN  IF k <= 0 THEN x
      ELSE LET p    == Pow2(k)
               r    == x[1] % p
               q    == x[1] \div p
               down == [x EXCEPT ![1] = x[1] - r]
               up   == MulAdd(down, 1, p)
           IN  IF 2 * r > p \/ (2 * r = p /\ q % 2 = 1) THEN up ELSE down

(***************************************************************************)
(* Text and the winnow combinators the two grammars are built from.       *)
(***************************************************************************)
Digits == <<"0", "1", "2", "3", "4", "5", "6", "7", "8", "9">>

DigitSet == {Digits[i] : i \in 1..10}

DigitVal(c) == (CHOOSE i \in 1..10 : Digits[i] = c) - 1

SpaceSet == {" ", "\t"}

\* The state of a parse: whether everything matched so far, what is left
\* of the input, and the values produced so far; panic marks a panic inside
\* a parser, which nothing catches.  Every parser takes the state r the
\* parsers before it left and gives the state behind it; like `?`, it
\* passes a failure on.
Fail == [ok |-> FALSE, rest |-> <<>>, val |-> <<>>, panic |-> FALSE]

Panicked == [ok |-> FALSE, rest |-> <<>>, val |-> <<>>, panic |-> TRUE]

Match(rest, val) == [ok |-> TRUE, rest |-> rest, val |-> val, panic |-> FALSE]

\* The parse of a line begins.
Start(input) == Match(input, <<>>)

Drop(s, n) == SubSeq(s, n + 1, Len(s))

\* How many leading characters of s lie in the set.
LeadingCount(s, set) ==
  CHOOSE n \in 0..Len(s) :
    /\ \A i \in 1..n : s[i] \in set
    /\ (n = Len(s) \/ s[n + 1] \notin set)

\* A literal tag.
Lit(lit, r) ==
  IF ~r.ok THEN r
  ELSE IF Len(r.rest) >= Len(lit) /\ SubSeq(r.rest, 1, Len(lit)) = lit
  THEN Match(Drop(r.rest, Len(lit)), r.val)
  ELSE Fail

\* The offsets in s at which lit occurs.
Occurrences(lit, s) ==
  {i \in 0..(Len(s) - Len(lit)) : SubSeq(s, i + 1, i + Len(lit)) = lit}

SkipToFirst(r, at) ==
  IF at = {} THEN Fail
  ELSE Match(Drop(r.rest, CHOOSE i \in at : \A j \in at : i <= j), r.val)

\* take_until(0.., lit): skip to the first occurrence of lit, which stays.
TakeUntil(lit, r) ==
  IF ~r.ok THEN r ELSE SkipToFirst(r, Occurrences(lit, r.rest))

SpaceTaken(r, n) == IF n >= 1 THEN Match(Drop(r.rest, n), r.val) ELSE Fail

\* space1: one or more spaces or tabs.
Space1(r) ==
  IF ~r.ok THEN r ELSE SpaceTaken(r, LeadingCount(r.rest, SpaceSet))

Fits(x, width) == IF width = 32 THEN FitsU32(x) ELSE FitsU64(x)

\* The value of a digit string in an unsigned type of the given width, or
\* overflow: str::parse checks every multiply-and-add.  acc is the value of
\* the digits before digit i.
RECURSIVE DecFrom(_, _, _, _)
DecFrom(digits, i, acc, width) ==
  IF ~Fits(acc, width) THEN [ok |-> FALSE, val |-> Zero]
  ELSE IF i > Len(digits) THEN [ok |-> TRUE, val |-> acc]
  ELSE DecFrom(digits, i + 1, MulAdd(acc, 10, DigitVal(digits[i])), width)

DecValue(digits, width) == DecFrom(digits, 1, Zero, width)

DecResult(r, n, v) ==
  IF v.ok THEN Match(Drop(r.rest, n), Append(r.val, v.val)) ELSE Fail

DecTaken(r, n, width) == DecResult(r, n, DecValue(SubSeq(r.rest, 1, n), width))

\* dec_uint: a single "0", or a nonzero digit and the digits after it; the
\* match fails (and can be retried by alt or opt) when the number is out of
\* range for the output type.  The number joins the values.
DecUint(r, width) ==
  IF ~r.ok THEN r
  ELSE IF r.rest = <<>> \/ Head(r.rest) \notin DigitSet THEN Fail
  ELSE IF Head(r.rest) = "0" THEN Match(Tail(r.rest), Append(r.val, Zero))
  ELSE DecTaken(r, LeadingCount(r.rest, DigitSet), width)

U32(r) == DecUint(r, 32)

U64(r) == DecUint(r, 64)

\* alt((a, b)): a and b are the outcomes of two parsers on the same input.
FirstOf(a, b) == IF a.ok \/ a.panic THEN a ELSE b

(***************************************************************************)
(* The anchor tokens of the two grammars.                                  *)
(***************************************************************************)
T_cov == <<"c", "o", "v", ":">>

T_ft == <<"f", "t", ":">>

T_corp == <<"c", "o", "r", "p", ":">>

T_exec == <<"e", "x", "e", "c", "/", "s">>

T_exec_colon == <<"e", "x", "e", "c", "/", "s", ":">>

T_oom == <<"o", "o", "m", "/", "t", "i", "m", "e", "o", "u", "t", "/", "c", "r", "a", "s", "h", ":">>

T_time == <<"t", "i", "m", "e", ":">>

T_Kb == <<"K", "b">>

T_Mb == <<"M", "b">>

T_b == <<"b">>

T_slash == <<"/">>

T_s == <<"s">>

(***************************************************************************)
(* struct Parsed and the outcome of parsing one line: a record, a parse    *)
(* error ("not recognized"), or a panic of the parsing task.               *)
(***************************************************************************)
Parsed(cov, ft, corp, corp_size, exec_s, oom, timeout, crash, time) ==
  [cov |-> cov, ft |-> ft, corp |-> corp, corp_size |-> corp_size,
   exec_s |-> exec_s, oom |-> oom, timeout |-> timeout, crash |-> crash,
   time |-> time]

Ok(parsed) == [kind |-> "Ok", parsed |-> parsed]

Err == [kind |-> "Err"]

Panic == [kind |-> "Panic"]

\* preceded(("cov:", space1), dec_uint)
CovField(r) == U32(Space1(Lit(T_cov, r)))

\* preceded((space1, (label, space1)), dec_uint)
LabelledField(label, r) == U32(Space1(Lit(label, Space1(r))))

FtField(r) == LabelledField(T_ft, r)

CorpField(r) == LabelledField(T_corp, r)

\* A variant with the first alternative alone.
ExecLabelNoColonOnly(r) == Space1(Lit(T_exec, r))

\* alt((("exec/s", space1), ("exec/s:", space1))): the first alternative
\* that matches wins, and the second one is tried from the same place.
ExecLabel(r) == FirstOf(Space1(Lit(T_exec, r)), Space1(Lit(T_exec_colon, r)))

\* preceded((space1, exec_s), dec_uint)
ExecField(r) == U32(ExecLabel(Space1(r)))

\* preceded((space1, "oom/timeout/crash:", space1),
\*           (dec_uint, '/', dec_uint, '/', dec_uint))
OomField(r) ==
  U32(Lit(T_slash, U32(Lit(T_slash, U32(Space1(Lit(T_oom, Space1(r))))))))

\* preceded((space1, ("time:", space1)), terminated(dec_uint, 's'))
TimeField(r) == Lit(T_s, U32(Space1(Lit(T_time, Space1(r)))))

\* The parsers of parse_fork_mode in turn; the values are
\* <<cov, ft, corp, exec_s, oom, timeout, crash, time>>.
ForkFields(input) ==
  TimeField(OomField(ExecField(CorpField(FtField(CovField(
    TakeUntil(T_cov, Start(input))))))))

\* A variant that hands out timeout and crash the other way round.
ForkParsedSwapped(r) ==
  IF r.ok
  THEN Ok(Parsed(r.val[1], r.val[2], r.val[3], Zero, r.val[4],
                 r.val[5], r.val[7], r.val[6], r.val[8]))
  ELSE Err

\* Ok(Parsed { cov, ft, corp, corp_size: 0, exec_s, oom: oom_crash.0,
\* timeout: oom_crash.1, crash: oom_crash.2, time })
ForkParsed(r) ==
  IF r.ok
  THEN Ok(Parsed(r.val[1], r.val[2], r.val[3], Zero, r.val[4],
                 r.val[5], r.val[6], r.val[7], r.val[8]))
  ELSE Err

\* fn parse_fork_mode: Format A.  `rest` takes what follows the time field.
parse_fork_mode(input) == ForkParsed(ForkFields(input))

UnitKb == 1024

UnitMb == 1024 * 1024

UnitB == 1

\* The unit of the first literal that matched: k, m, b are the outcomes of
\* "Kb", "Mb" and "b" behind r.  The unit joins the values.
PickUnit(r, k, m, b) ==
  IF ~r.ok THEN r
  ELSE IF k.ok THEN Match(k.rest, Append(r.val, UnitKb))
  ELSE IF m.ok THEN Match(m.rest, Append(r.val, UnitMb))
  ELSE IF b.ok THEN Match(b.rest, Append(r.val, UnitB))
  ELSE Fail

\* A variant in which "Mb" has the value of "Kb".
PickUnitMbAsKb(r, k, m, b) ==
  IF ~r.ok THEN r
  ELSE IF k.ok THEN Match(k.rest, Append(r.val, UnitKb))
  ELSE IF m.ok THEN Match(m.rest, Append(r.val, UnitKb))
  ELSE IF b.ok THEN Match(b.rest, Append(r.val, UnitB))
  ELSE Fail

UnitSuffixMbAsKb(r) == PickUnitMbAsKb(r, Lit(T_Kb, r), Lit(T_Mb, r), Lit(T_b, r))

\* alt(("Kb".value(1024), "Mb".value(1024 * 1024), "b".value(1)))
UnitSuffix(r) == PickUnit(r, Lit(T_Kb, r), Lit(T_Mb, r), Lit(T_b, r))

TimesKb(n) == MulAdd(n, UnitKb, 0)

Wrapped(p, before) == [val |-> WrapU64(p), overflow |-> before \/ ~FitsU64(p)]

\* n * unit on u64: the low 64 bits of the product, and whether the product
\* left the u64 range.
MulU64(n, unit) ==
  IF unit = UnitB THEN [val |-> n, overflow |-> FALSE]
  ELSE IF unit = UnitKb THEN Wrapped(TimesKb(n), FALSE)
  ELSE Wrapped(TimesKb(WrapU64(TimesKb(n))), ~FitsU64(TimesKb(n)))

\* The multiplication runs inside the parser: with overflow checks compiled
\* in it panics on overflow, without them it wraps.  The product takes the
\* place of its two factors among the values.
Multiplied(r, p, checks) ==
  IF p.overflow /\ checks THEN Panicked
  ELSE Match(r.rest, Append(SubSeq(r.val, 1, Len(r.val) - 2), p.val))

\* .map(|(n, unit): (u64, u64)| n * unit)
Product(r, checks) ==
  IF ~r.ok THEN r
  ELSE Multiplied(r, MulU64(r.val[Len(r.val) - 1], r.val[Len(r.val)]), checks)

\* preceded('/', (dec_uint, alt(units)).map(|(n, unit)| n * unit))
Sized(r, checks) == Product(UnitSuffix(U64(Lit(T_slash, r))), checks)

\* opt(p) with .unwrap_or(0): q is the outcome of p behind r; when p did
\* not match, the input stays where it was and the value is 0.
OptOrZero(r, q) ==
  IF ~r.ok THEN r
  ELSE IF q.ok \/ q.panic THEN q
  ELSE Match(r.rest, Append(r.val, Zero))

\* opt(preceded('/', ...)) with size.unwrap_or(0)
SizeSuffix(r, checks) == OptOrZero(r, Sized(r, checks))

\* preceded((space1, "corp:", space1), (dec_uint, opt(size)))
\*   .map(|(units, size)| (units, size.unwrap_or(0)))
CorpSizeField(r, checks) ==
  SizeSuffix(U32(Space1(Lit(T_corp, Space1(r)))), checks)

\* terminated(take_until(0.., "exec/s:"), "exec/s:") and
\* preceded(space1, dec_uint)
JobExecField(r) ==
  U32(Space1(Lit(T_exec_colon, TakeUntil(T_exec_colon, r))))

\* The parsers of parse_job_mode in turn; the values are
\* <<cov, ft, corp, corp_size, exec_s>>.
JobFields(input, checks) ==
  JobExecField(CorpSizeField(FtField(CovField(
    TakeUntil(T_cov, Start(input)))), checks))

\* Ok(Parsed { cov, ft, corp: corp_units, corp_size, exec_s, oom: 0,
\* timeout: 0, crash: 0, time: 0 })
JobParsed(r) ==
  IF r.ok
  THEN Ok(Parsed(r.val[1], r.val[2], r.val[3], r.val[4], r.val[5],
                 Zero, Zero, Zero, Zero))
  ELSE IF r.panic THEN Panic
  ELSE Err

\* fn parse_job_mode: Format B.
parse_job_mode(input, checks) == JobParsed(JobFields(input, checks))

\* Parsed::from_log and Parsed::from_log_job: Parser::parse also demands
\* that the whole line was consumed, which `rest` has seen to.
from_log(log) == parse_fork_mode(log)

from_log_job(log, checks) == parse_job_mode(log, checks)

(***************************************************************************)
(* The lines the input streams can deliver.                                *)
(***************************************************************************)
\* Lines of the per-job log files (jobs mode).
JobFeed ==
  <<
    \* a well-formed line
    \* RELOAD cov: 10 ft: 20 corp: 30/2Kb lim: 5 exec/s: 100 rss: 36Mb
    <<"R", "E", "L", "O", "A", "D", " ", "c", "o", "v", ":", " ", "1", "0",
      " ", "f", "t", ":", " ", "2", "0", " ", "c", "o", "r", "p", ":", " ",
      "3", "0", "/", "2", "K", "b", " ", "l", "i", "m", ":", " ", "5", " ",
      "e", "x", "e", "c", "/", "s", ":", " ", "1", "0", "0", " ", "r", "s",
      "s", ":", " ", "3", "6", "M", "b">>,
    \* the largest throughput, and a corpus of 2^53 + 1 bytes
    \* cov: 50 ft: 60 corp: 70/9007199254740993b exec/s: 4294967295
    <<"c", "o", "v", ":", " ", "5", "0", " ", "f", "t", ":", " ", "6", "0",
      " ", "c", "o", "r", "p", ":", " ", "7", "0", "/", "9", "0", "0", "7",
      "1", "9", "9", "2", "5", "4", "7", "4", "0", "9", "9", "3", "b", " ",
      "e", "x", "e", "c", "/", "s", ":", " ", "4", "2", "9", "4", "9", "6",
      "7", "2", "9", "5">>,
    \* no number after cov:
    \* cov: abc ft: 1 corp: 1 exec/s: 1
    <<"c", "o", "v", ":", " ", "a", "b", "c", " ", "f", "t", ":", " ", "1",
      " ", "c", "o", "r", "p", ":", " ", "1", " ", "e", "x", "e", "c", "/",
      "s", ":", " ", "1">>,
    \* a corpus of 2^64 bytes
    \* cov: 10 ft: 20 corp: 30/18014398509481984Kb exec/s: 100
    <<"c", "o", "v", ":", " ", "1", "0", " ", "f", "t", ":", " ", "2", "0",
      " ", "c", "o", "r", "p", ":", " ", "3", "0", "/", "1", "8", "0", "1",
      "4", "3", "9", "8", "5", "0", "9", "4", "8", "1", "9", "8", "4", "K",
      "b", " ", "e", "x", "e", "c", "/", "s", ":", " ", "1", "0", "0">>
  >>

\* Lines of the journal (journal mode).
JournalFeed ==
  <<
    \* a well-formed line
    \* cargo[1]: #2: cov: 2163 ft: 20854 corp: 2853 exec/s: 1464 oom/timeout/crash: 1/2/3 time: 56383s job: 6125
    <<"c", "a", "r", "g", "o", "[", "1", "]", ":", " ", "#", "2", ":", " ",
      "c", "o", "v", ":", " ", "2", "1", "6", "3", " ", "f", "t", ":", " ",
      "2", "0", "8", "5", "4", " ", "c", "o", "r", "p", ":", " ", "2", "8",
      "5", "3", " ", "e", "x", "e", "c", "/", "s", ":", " ", "1", "4", "6",
      "4", " ", "o", "o", "m", "/", "t", "i", "m", "e", "o", "u", "t", "/",
      "c", "r", "a", "s", "h", ":", " ", "1", "/", "2", "/", "3", " ", "t",
      "i", "m", "e", ":", " ", "5", "6", "3", "8", "3", "s", " ", "j", "o",
      "b", ":", " ", "6", "1", "2", "5">>,
    \* exec/s without the colon
    \* cov: 400 ft: 7911 corp: 1901 exec/s 24015 oom/timeout/crash: 0/0/0 time: 252s
    <<"c", "o", "v", ":", " ", "4", "0", "0", " ", "f", "t", ":", " ", "7",
      "9", "1", "1", " ", "c", "o", "r", "p", ":", " ", "1", "9", "0", "1",
      " ", "e", "x", "e", "c", "/", "s", " ", "2", "4", "0", "1", "5", " ",
      "o", "o", "m", "/", "t", "i", "m", "e", "o", "u", "t", "/", "c", "r",
      "a", "s", "h", ":", " ", "0", "/", "0", "/", "0", " ", "t", "i", "m",
      "e", ":", " ", "2", "5", "2", "s">>,
    \* no ft: field
    \* cov: 400 corp: 1901 exec/s: 24015 oom/timeout/crash: 0/0/0 time: 252s
    <<"c", "o", "v", ":", " ", "4", "0", "0", " ", "c", "o", "r", "p", ":",
      " ", "1", "9", "0", "1", " ", "e", "x", "e", "c", "/", "s", ":", " ",
      "2", "4", "0", "1", "5", " ", "o", "o", "m", "/", "t", "i", "m", "e",
      "o", "u", "t", "/", "c", "r", "a", "s", "h", ":", " ", "0", "/", "0",
      "/", "0", " ", "t", "i", "m", "e", ":", " ", "2", "5", "2", "s">>,
    \* a Format B line
    \* RELOAD cov: 641 ft: 9191 corp: 1640/591Kb lim: 2411 exec/s: 529 rss: 36Mb
    <<"R", "E", "L", "O", "A", "D", " ", "c", "o", "v", ":", " ", "6", "4",
      "1", " ", "f", "t", ":", " ", "9", "1", "9", "1", " ", "c", "o", "r",
      "p", ":", " ", "1", "6", "4", "0", "/", "5", "9", "1", "K", "b", " ",
      "l", "i", "m", ":", " ", "2", "4", "1", "1", " ", "e", "x", "e", "c",
      "/", "s", ":", " ", "5", "2", "9", " ", "r", "s", "s", ":", " ", "3",
      "6", "M", "b">>
  >>

(***************************************************************************)
(* A family of lines for the two grammars, each described by what it is    *)
(* made of, so that what a line says is known without parsing it.          *)
(***************************************************************************)
\* What precedes the metrics on a line: nothing, a journal prefix, and a
\* prefix that itself contains "cov:".
Prefixes ==
  <<
    \* ""
    <<>>,
    \* "Feb 20 08:24:30 cargo[117394]: #2903021619: "
    <<"F", "e", "b", " ", "2", "0", " ", "0", "8", ":", "2", "4", ":", "3",
      "0", " ", "c", "a", "r", "g", "o", "[", "1", "1", "7", "3", "9", "4",
      "]", ":", " ", "#", "2", "9", "0", "3", "0", "2", "1", "6", "1", "9",
      ":", " ">>,
    \* "libfuzzer cov: on; "
    <<"l", "i", "b", "f", "u", "z", "z", "e", "r", " ", "c", "o", "v", ":",
      " ", "o", "n", ";", " ">>
  >>

\* What follows the last field of a line.
Tails ==
  <<
    \* ""
    <<>>,
    \* " job: 6125 dft_time: 0"
    <<" ", "j", "o", "b", ":", " ", "6", "1", "2", "5", " ", "d", "f", "t",
      "_", "t", "i", "m", "e", ":", " ", "0">>,
    \* " rss: 36Mb"
    <<" ", "r", "s", "s", ":", " ", "3", "6", "M", "b">>
  >>

\* What stands between the corp: field and exec/s: in Format B.
Mids ==
  <<
    \* ""
    <<>>,
    \* " lim: 2411 focus: 0/8Kb"
    <<" ", "l", "i", "m", ":", " ", "2", "4", "1", "1", " ", "f", "o", "c",
      "u", "s", ":", " ", "0", "/", "8", "K", "b">>
  >>

\* The numbers of the Format A line of the tests: cov, ft, corp, exec/s,
\* oom, timeout, crash, time.
BaseA ==
  <<
    [txt |-> <<"2", "1", "6", "3">>, val |-> Big(2163, 0, 0, 0, 0), class |-> "ok"],
    [txt |-> <<"2", "0", "8", "5", "4">>, val |-> Big(20854, 0, 0, 0, 0), class |-> "ok"],
    [txt |-> <<"2", "8", "5", "3">>, val |-> Big(2853, 0, 0, 0, 0), class |-> "ok"],
    [txt |-> <<"1", "4", "6", "4">>, val |-> Big(1464, 0, 0, 0, 0), class |-> "ok"],
    [txt |-> <<"1">>, val |-> Big(1, 0, 0, 0, 0), class |-> "ok"],
    [txt |-> <<"2">>, val |-> Big(2, 0, 0, 0, 0), class |-> "ok"],
    [txt |-> <<"3">>, val |-> Big(3, 0, 0, 0, 0), class |-> "ok"],
    [txt |-> <<"5", "6", "3", "8", "3">>, val |-> Big(56383, 0, 0, 0, 0), class |-> "ok"]
  >>

\* The numbers of the Format B line of the tests: cov, ft, corp, exec/s.
BaseB ==
  <<
    [txt |-> <<"6", "4", "1">>, val |-> Big(641, 0, 0, 0, 0), class |-> "ok"],
    [txt |-> <<"9", "1", "9", "1">>, val |-> Big(9191, 0, 0, 0, 0), class |-> "ok"],
    [txt |-> <<"1", "6", "4", "0">>, val |-> Big(1640, 0, 0, 0, 0), class |-> "ok"],
    [txt |-> <<"5", "2", "9">>, val |-> Big(529, 0, 0, 0, 0), class |-> "ok"]
  >>

\* What a u32 field can hold instead: the ends of the range, a number
\* beyond it, and no number.
Variants ==
  <<
    [txt |-> <<"0">>, val |-> Big(0, 0, 0, 0, 0), class |-> "ok"],
    [txt |-> <<"4", "2", "9", "4", "9", "6", "7", "2", "9", "5">>, val |-> Big(65535, 65535, 0, 0, 0), class |-> "ok"],
    [txt |-> <<"4", "2", "9", "4", "9", "6", "7", "2", "9", "6">>, val |-> Big(0, 0, 1, 0, 0), class |-> "range"],
    [txt |-> <<"a", "b", "c">>, val |-> Zero, class |-> "nan"]
  >>

\* The size suffix of the corp: field in Format B, with the exact product
\* of size and unit where there is one.
Suffixes ==
  <<
    \* no suffix
    [txt |-> <<>>,
     bytes |-> Zero, class |-> "none"],
    \* 591 * 1024
    [txt |-> <<"/", "5", "9", "1", "K", "b">>,
     bytes |-> Big(15360, 9, 0, 0, 0), class |-> "ok"],
    \* 591 * 1024 * 1024
    [txt |-> <<"/", "5", "9", "1", "M", "b">>,
     bytes |-> Big(0, 9456, 0, 0, 0), class |-> "ok"],
    \* 591
    [txt |-> <<"/", "5", "9", "1", "b">>,
     bytes |-> Big(591, 0, 0, 0, 0), class |-> "ok"],
    \* 0
    [txt |-> <<"/", "0", "K", "b">>,
     bytes |-> Big(0, 0, 0, 0, 0), class |-> "ok"],
    \* 2^53 + 1
    [txt |-> <<"/", "9", "0", "0", "7", "1", "9", "9", "2", "5", "4", "7", "4", "0",
           "9", "9", "3", "b">>,
     bytes |-> Big(1, 0, 0, 32, 0), class |-> "ok"],
    \* (2^54 - 1) * 1024 = 2^64 - 1024
    [txt |-> <<"/", "1", "8", "0", "1", "4", "3", "9", "8", "5", "0", "9", "4", "8",
           "1", "9", "8", "3", "K", "b">>,
     bytes |-> Big(64512, 65535, 65535, 65535, 0), class |-> "ok"],
    \* (2^44 - 1) * 2^20 = 2^64 - 2^20
    [txt |-> <<"/", "1", "7", "5", "9", "2", "1", "8", "6", "0", "4", "4", "4", "1",
           "5", "M", "b">>,
     bytes |-> Big(0, 65520, 65535, 65535, 0), class |-> "ok"],
    \* 2^64 - 1
    [txt |-> <<"/", "1", "8", "4", "4", "6", "7", "4", "4", "0", "7", "3", "7", "0",
           "9", "5", "5", "1", "6", "1", "5", "b">>,
     bytes |-> Big(65535, 65535, 65535, 65535, 0), class |-> "ok"],
    \* 2^54 * 1024 = 2^64
    [txt |-> <<"/", "1", "8", "0", "1", "4", "3", "9", "8", "5", "0", "9", "4", "8",
           "1", "9", "8", "4", "K", "b">>,
     bytes |-> Big(0, 0, 0, 0, 1), class |-> "overflow"],
    \* (2^44 + 1) * 2^20 = 2^64 + 2^20
    [txt |-> <<"/", "1", "7", "5", "9", "2", "1", "8", "6", "0", "4", "4", "4", "1",
           "7", "M", "b">>,
     bytes |-> Big(0, 16, 0, 0, 1), class |-> "overflow"],
    \* (2^64 - 1) * 1024
    [txt |-> <<"/", "1", "8", "4", "4", "6", "7", "4", "4", "0", "7", "3", "7", "0",
           "9", "5", "5", "1", "6", "1", "5", "K", "b">>,
     bytes |-> Big(64512, 65535, 65535, 65535, 1023), class |-> "overflow"],
    \* an unknown unit
    [txt |-> <<"/", "5", "9", "1", "G", "b">>,
     bytes |-> Zero, class |-> "malformed"],
    \* no number after the slash
    [txt |-> <<"/", "K", "b">>,
     bytes |-> Zero, class |-> "malformed"],
    \* no unit
    [txt |-> <<"/", "5", "9", "1">>,
     bytes |-> Zero, class |-> "malformed"],
    \* a size of 2^64, beyond u64
    [txt |-> <<"/", "1", "8", "4", "4", "6", "7", "4", "4", "0", "7", "3", "7", "0",
           "9", "5", "5", "1", "6", "1", "6", "b">>,
     bytes |-> Zero, class |-> "toolarge"]
  >>

Sp == <<" ">>

\* The order of the fields on a Format A line (1 cov, 2 ft, 3 corp,
\* 4 exec/s, 5 oom/timeout/crash, 6 time) and on a Format B line (1 cov,
\* 2 ft, 3 corp with its suffix and what follows it, 4 exec/s).
OrderA(shape) ==
  CASE shape = "full"          -> <<1, 2, 3, 4, 5, 6>>
    [] shape = "no_cov"        -> <<2, 3, 4, 5, 6>>
    [] shape = "no_ft"         -> <<1, 3, 4, 5, 6>>
    [] shape = "no_corp"       -> <<1, 2, 4, 5, 6>>
    [] shape = "no_exec"       -> <<1, 2, 3, 5, 6>>
    [] shape = "no_oom"        -> <<1, 2, 3, 4, 6>>
    [] shape = "no_time"       -> <<1, 2, 3, 4, 5>>
    [] shape = "swap_ft_corp"  -> <<1, 3, 2, 4, 5, 6>>
    [] shape = "swap_oom_time" -> <<1, 2, 3, 4, 6, 5>>

OrderB(shape) ==
  CASE shape = "full"          -> <<1, 2, 3, 4>>
    [] shape = "no_cov"        -> <<2, 3, 4>>
    [] shape = "no_ft"         -> <<1, 3, 4>>
    [] shape = "no_corp"       -> <<1, 2, 4>>
    [] shape = "no_exec"       -> <<1, 2, 3>>
    [] shape = "swap_ft_corp"  -> <<1, 3, 2, 4>>

BrokenA ==
  {"no_cov", "no_ft", "no_corp", "no_exec", "no_oom", "no_time",
   "swap_ft_corp", "swap_oom_time"}

BrokenB == {"no_cov", "no_ft", "no_corp", "no_exec", "swap_ft_corp"}

\* A line: its format, prefix, whether exec/s has its colon, the size
\* suffix and what follows the corp: field (Format B), the tail, the order
\* of the fields, and the one field (if any) that holds a variant number.
LinesA ==
  {[fmt |-> "A", pre |-> p, colon |-> c, suffix |-> 1, mid |-> 1, tail |-> t,
    shape |-> v[1], fld |-> v[2], tok |-> v[3]] :
     p \in 1..Len(Prefixes), c \in BOOLEAN, t \in 1..Len(Tails),
     v \in {<<"full", 0, 1>>}
           \cup {<<"full", f, k>> : f \in 1..Len(BaseA), k \in 1..Len(Variants)}
           \cup {<<b, 0, 1>> : b \in BrokenA}}

LinesB ==
  {[fmt |-> "B", pre |-> p, colon |-> c, suffix |-> v[4], mid |-> m, tail |-> t,
    shape |-> v[1], fld |-> v[2], tok |-> v[3]] :
     p \in 1..Len(Prefixes), c \in BOOLEAN, m \in 1..Len(Mids), t \in 1..Len(Tails),
     v \in {<<"full", 0, 1, x>> : x \in 1..Len(Suffixes)}
           \cup {<<"full", f, k, x>> : f \in 1..Len(BaseB), k \in 1..Len(Variants),
                                       x \in 1..2}
           \cup {<<b, 0, 1, x>> : b \in BrokenB, x \in 1..2}}

Lines == LinesA \cup LinesB

\* The number, as written and as meant, in field i of the line.
FieldTok(d, i) ==
  IF d.fld = i THEN Variants[d.tok]
  ELSE IF d.fmt = "A" THEN BaseA[i] ELSE BaseB[i]

ExecToken(d) == IF d.colon THEN T_exec_colon ELSE T_exec

Segment(d, k) ==
  IF d.fmt = "A"
  THEN CASE k = 1 -> T_cov \o Sp \o FieldTok(d, 1).txt
         [] k = 2 -> T_ft \o Sp \o FieldTok(d, 2).txt
         [] k = 3 -> T_corp \o Sp \o FieldTok(d, 3).txt
         [] k = 4 -> ExecToken(d) \o Sp \o FieldTok(d, 4).txt
         [] k = 5 -> T_oom \o Sp \o FieldTok(d, 5).txt \o T_slash
                       \o FieldTok(d, 6).txt \o T_slash \o FieldTok(d, 7).txt
         [] k = 6 -> T_time \o Sp \o FieldTok(d, 8).txt \o T_s
  ELSE CASE k = 1 -> T_cov \o Sp \o FieldTok(d, 1).txt
         [] k = 2 -> T_ft \o Sp \o FieldTok(d, 2).txt
         [] k = 3 -> T_corp \o Sp \o FieldTok(d, 3).txt
                       \o Suffixes[d.suffix].txt \o Mids[d.mid]
         [] k = 4 -> ExecToken(d) \o Sp \o FieldTok(d, 4).txt

\* The text of the line: prefix, fields separated by one space, tail.
Render(d) ==
  LET order == IF d.fmt = "A" THEN OrderA(d.shape) ELSE OrderB(d.shape)
      upto[i \in 0..Len(order)] ==
        IF i = 0 THEN <<>>
        ELSE upto[i - 1] \o (IF i = 1 THEN <<>> ELSE Sp) \o Segment(d, order[i])
  IN  Prefixes[d.pre] \o upto[Len(order)] \o Tails[d.tail]

\* The same line with the colon after exec/s added or removed.
Twin(d) == [d EXCEPT !.colon = ~d.colon]

(***************************************************************************)
(* The program.                                                            *)
(***************************************************************************)
\* Bounds of the model: log files in the directory, and lines delivered by
\* all input streams together.
MaxJobs == 2

MaxLines == 2

VARIABLES
  overflow_checks,  \* the build: integer overflow panics (debug) or wraps
  mode,             \* main: "journal" without argument, "jobs" with one;
                    \* "test" when the unit tests run instead of main
  proc,             \* the process: "running", or "exited" once main is left
  jobs,             \* jobs_parser: the Vec<JobStatus>, one slot per log file
  reader,           \* jobs_parser: the spawned task of each log file
  agg,              \* jobs_parser: the position of the publishing loop
  gauges,           \* the recorder: the value each gauge was last set to
  nread,            \* lines delivered so far
  last,             \* the number, in its feed, of the line delivered last
  line,             \* mod test: the line handed to the parsers
  outcome           \* mod test: what each parser returned for it

testVars == <<line, outcome>>

vars ==
  <<overflow_checks, mode, proc, jobs, reader, agg, gauges, nread, last,
    testVars>>

\* A gauge that was never set is not exported.
Unset == <<>>

GaugeNames ==
  {"fuzz_cov", "fuzz_feat", "fuzz_corp", "fuzz_exec_s", "fuzz_corp_size",
   "fuzz_oom", "fuzz_timeout", "fuzz_crash", "fuzz_time"}

\* #[derive(Default)] struct JobStatus
JobStatusDefault ==
  [cov |-> Zero, ft |-> Zero, corp |-> Zero, exec_s |-> Zero, corp_size |-> Zero]

\* The five update_metric! invocations of the loop, in order.
Passes ==
  << [field |-> "cov",       policy |-> "max", metric |-> "fuzz_cov"],
     [field |-> "ft",        policy |-> "max", metric |-> "fuzz_feat"],
     [field |-> "corp",      policy |-> "max", metric |-> "fuzz_corp"],
     [field |-> "exec_s",    policy |-> "sum", metric |-> "fuzz_exec_s"],
     [field |-> "corp_size", policy |-> "max", metric |-> "fuzz_corp_size"] >>

ReaderIdle == [pc |-> "next_line"]

\* The loop of jobs_parser is about to run update_metric! number p.
PassStart(p) == [pc |-> "update_metric", pass |-> p]

AggOff == [pc |-> "off", pass |-> 0]

NoLine == 0

NotRun == [kind |-> "NotRun"]

NoTest == [fmt |-> "none"]

NoOutcome == [fork |-> NotRun, twin |-> NotRun, job |-> NotRun]

Init ==
  /\ overflow_checks \in BOOLEAN
  /\ mode \in {"journal", "jobs"}
  /\ proc = "running"
  /\ \E n \in 0..(IF mode = "jobs" THEN MaxJobs ELSE 0) :
       /\ jobs = [i \in 1..n |-> JobStatusDefault]
       /\ reader = [i \in 1..n |-> ReaderIdle]
  /\ agg = IF mode = "jobs" THEN PassStart(1) ELSE AggOff
  /\ gauges = [g \in GaugeNames |-> Unset]
  /\ nread = 0
  /\ last = NoLine
  /\ line = NoTest
  /\ outcome = NoOutcome

(***************************************************************************)
(* jobs mode: the reader task of log file idx                              *)
(***************************************************************************)
\* The outcome of parsing each line of the feeds.
JobOutcomeChecked == [l \in 1..Len(JobFeed) |-> from_log_job(JobFeed[l], TRUE)]

JobOutcomeWrapping == [l \in 1..Len(JobFeed) |-> from_log_job(JobFeed[l], FALSE)]

JournalOutcome == [l \in 1..Len(JournalFeed) |-> from_log(JournalFeed[l])]

JobOutcome(l, checks) == IF checks THEN JobOutcomeChecked[l] ELSE JobOutcomeWrapping[l]

\* JobStatus::update: every field of the slot takes the value of the line.
update(job, parsed) ==
  [cov |-> parsed.cov, ft |-> parsed.ft, corp |-> parsed.corp,
   exec_s |-> parsed.exec_s, corp_size |-> parsed.corp_size]

\* A variant that stores the default record for a line that did not parse.
SlotAfterResetting(job, res) ==
  IF res.kind = "Ok" THEN update(job, res.parsed) ELSE JobStatusDefault

\* let Ok(parsed) = Parsed::from_log_job(&line) else { continue };
\* jobs[idx].update(&parsed);
SlotAfter(job, res) ==
  IF res.kind = "Ok" THEN update(job, res.parsed) ELSE job

\* One round of while let Ok(Some(line)) = stream.next_line().await: a parse
\* error continues with the next line, a record updates the slot of this
\* file, and a panic of the parser ends this task alone.
ReaderLine(idx) ==
  /\ proc = "running" /\ mode = "jobs"
  /\ reader[idx].pc = "next_line"
  /\ nread < MaxLines
  /\ \E l \in 1..Len(JobFeed) :
       LET res == JobOutcome(l, overflow_checks)
       IN  /\ jobs' = [jobs EXCEPT ![idx] = SlotAfter(@, res)]
           /\ reader' = IF res.kind = "Panic"
                        THEN [reader EXCEPT ![idx].pc = "panicked"]
                        ELSE reader
           /\ last' = l
  /\ nread' = nread + 1
  /\ UNCHANGED <<overflow_checks, mode, proc, agg, gauges, testVars>>

\* A variant in which the end of one stream is an error of jobs_parser, as
\* with `?` on next_line(): every task ends and main returns.
ReaderEndAll(idx) ==
  /\ proc = "running" /\ mode = "jobs"
  /\ reader[idx].pc = "next_line"
  /\ reader' = [i \in 1..Len(reader) |-> [reader[i] EXCEPT !.pc = "ended"]]
  /\ proc' = "exited"
  /\ UNCHANGED <<overflow_checks, mode, jobs, agg, gauges, nread, last, testVars>>

\* next_line() returns Ok(None) or Err: the loop and the task end.
ReaderEnd(idx) ==
  /\ proc = "running" /\ mode = "jobs"
  /\ reader[idx].pc = "next_line"
  /\ reader' = [reader EXCEPT ![idx].pc = "ended"]
  /\ UNCHANGED <<overflow_checks, mode, proc, jobs, agg, gauges, nread, last, testVars>>

(***************************************************************************)
(* jobs mode: the publishing loop                                          *)
(***************************************************************************)
\* A variant that keeps the later value whatever it is.
MaxBigLast(a, b) == b

\* The fold of Iterator::max: the later of two equal values.
MaxBig(a, b) == IF Less(b, a) THEN a ELSE b

\* Iterator::max over the loaded values: None when there are none, and the
\* last of several equal maxima.
RECURSIVE IterMax(_, _)
IterMax(vals, acc) ==
  IF vals = <<>> THEN acc
  ELSE IterMax(Tail(vals), IF acc = Unset THEN Head(vals) ELSE MaxBig(acc, Head(vals)))

\* Iterator::sum::<u32> over the loaded values: each addition panics on
\* overflow when overflow checks are compiled in and wraps otherwise.
RECURSIVE IterSum(_, _, _)
IterSum(vals, acc, checks) ==
  IF vals = <<>> THEN [val |-> acc, panic |-> FALSE]
  ELSE LET t == Add(acc, Head(vals))
       IN  IF ~FitsU32(t) /\ checks THEN [val |-> acc, panic |-> TRUE]
           ELSE IterSum(Tail(vals), WrapU32(t), checks)

\* job.$field.load(Ordering::Acquire) for every job, in slot order.
Loaded(field) == [j \in 1..Len(jobs) |-> jobs[j][field]]

\* A variant with max().unwrap() in place of max().unwrap_or(0).
MetricValueUnwrap(policy, vals, checks) ==
  IF policy = "max"
  THEN LET m == IterMax(vals, Unset)
       IN  [val |-> IF m = Unset THEN Zero ELSE m, panic |-> m = Unset]
  ELSE IterSum(vals, Zero, checks)

\* The value one update_metric! computes: max().unwrap_or(0), or sum().
MetricValue(policy, vals, checks) ==
  IF policy = "max"
  THEN LET m == IterMax(vals, Unset)
       IN  [val |-> IF m = Unset THEN Zero ELSE m, panic |-> FALSE]
  ELSE IterSum(vals, Zero, checks)

\* One update_metric!: load the field of every job, reduce, and
\* metrics::gauge!($metric).set(value as f64); then the next invocation, or
\* the sleep after the fifth.  The loads of one invocation touch different
\* slots, each with its own writer, so they are taken together.  A panic
\* here is a panic of main: the process is gone.
UpdateMetric ==
  LET p == Passes[agg.pass]
      m == MetricValue(p.policy, Loaded(p.field), overflow_checks)
  IN  /\ proc = "running" /\ agg.pc = "update_metric"
      /\ IF m.panic
         THEN /\ proc' = "exited"
              /\ agg' = [agg EXCEPT !.pc = "panicked"]
              /\ gauges' = gauges
         ELSE /\ proc' = proc
              /\ gauges' = [gauges EXCEPT ![p.metric] = AsF64(m.val)]
              /\ agg' = IF agg.pass < Len(Passes) THEN PassStart(agg.pass + 1)
                        ELSE [agg EXCEPT !.pc = "sleep"]
      /\ UNCHANGED <<overflow_checks, mode, jobs, reader, nread, last, testVars>>

\* tokio::time::sleep(1s) is over: the next round of the loop.
AggWake ==
  /\ proc = "running" /\ agg.pc = "sleep"
  /\ agg' = PassStart(1)
  /\ UNCHANGED <<overflow_checks, mode, proc, jobs, reader, gauges, nread, last, testVars>>

(***************************************************************************)
(* journal mode: journalctl_parser                                         *)
(***************************************************************************)
\* The eight gauges set for a parsed line.
JournalGauges(parsed) ==
  [g \in GaugeNames |->
     CASE g = "fuzz_cov"     -> AsF64(parsed.cov)
       [] g = "fuzz_feat"    -> AsF64(parsed.ft)
       [] g = "fuzz_corp"    -> AsF64(parsed.corp)
       [] g = "fuzz_exec_s"  -> AsF64(parsed.exec_s)
       [] g = "fuzz_oom"     -> AsF64(parsed.oom)
       [] g = "fuzz_timeout" -> AsF64(parsed.timeout)
       [] g = "fuzz_crash"   -> AsF64(parsed.crash)
       [] g = "fuzz_time"    -> AsF64(parsed.time)
       [] OTHER              -> gauges[g]]

\* One round of while let Some(line) = stream.next_line().await?
JournalLine ==
  /\ proc = "running" /\ mode = "journal"
  /\ nread < MaxLines
  /\ \E l \in 1..Len(JournalFeed) :
       LET res == JournalOutcome[l]
       IN  /\ gauges' = IF res.kind = "Ok" THEN JournalGauges(res.parsed) ELSE gauges
           /\ last' = l
  /\ nread' = nread + 1
  /\ UNCHANGED <<overflow_checks, mode, proc, jobs, reader, agg, testVars>>

\* next_line() returns Ok(None), or an error that `?` propagates: either way
\* journalctl_parser returns and main with it.
JournalEnd ==
  /\ proc = "running" /\ mode = "journal"
  /\ proc' = "exited"
  /\ UNCHANGED <<overflow_checks, mode, jobs, reader, agg, gauges, nread, last, testVars>>

(***************************************************************************)
(* mod test: the parsers applied to one line, as the unit tests do, for    *)
(* every line of the family and either build.                              *)
(***************************************************************************)
InitTest ==
  /\ overflow_checks \in BOOLEAN
  /\ mode = "test"
  /\ proc = "running"
  /\ jobs = <<>>
  /\ reader = <<>>
  /\ agg = AggOff
  /\ gauges = [g \in GaugeNames |-> Unset]
  /\ nread = 0
  /\ last = NoLine
  /\ line \in Lines
  /\ outcome = NoOutcome

\* parse_fork_mode.parse(log)
TestFork ==
  /\ mode = "test" /\ outcome.fork = NotRun
  /\ outcome' = [outcome EXCEPT !.fork = from_log(Render(line))]
  /\ UNCHANGED <<overflow_checks, mode, proc, jobs, reader, agg, gauges, nread,
                 last, line>>

\* parse_fork_mode.parse(log) for the same line with the other spelling of
\* exec/s, as the second case of test_parse does.
TestForkTwin ==
  /\ mode = "test" /\ outcome.fork # NotRun /\ outcome.twin = NotRun
  /\ outcome' = [outcome EXCEPT !.twin = from_log(Render(Twin(line)))]
  /\ UNCHANGED <<overflow_checks, mode, proc, jobs, reader, agg, gauges, nread,
                 last, line>>

\* parse_job_mode.parse(log)
TestJob ==
  /\ mode = "test" /\ outcome.twin # NotRun /\ outcome.job = NotRun
  /\ outcome' = [outcome EXCEPT !.job = from_log_job(Render(line), overflow_checks)]
  /\ UNCHANGED <<overflow_checks, mode, proc, jobs, reader, agg, gauges, nread,
                 last, line>>

NextTest == TestFork \/ TestForkTwin \/ TestJob

SpecParse == InitTest /\ [][NextTest]_vars

Next ==
  \/ \E idx \in 1..Len(reader) : ReaderLine(idx)
  \/ \E idx \in 1..Len(reader) : ReaderEnd(idx)
  \/ UpdateMetric
  \/ AggWake
  \/ JournalLine
  \/ JournalEnd

Spec == Init /\ [][Next]_vars

(***************************************************************************)
(* jobs mode again, one step per atomic access: every store of             *)
(* JobStatus::update and every load of update_metric! is a step of its     *)
(* own.  Each field of a slot holds its modification order, the values     *)
(* stored to it so far, the initial one first.  The stores are Relaxed, so *)
(* nothing orders a store before a load of the loop: a load returns the    *)
(* latest value or an earlier one, but never one that precedes the value   *)
(* the loop loaded from the same field before (coherence).                 *)
(***************************************************************************)
\* Log files in the directory, and lines appended to them in all, when
\* several files are followed.
MaxSources == 2

MaxAppends == 1

\* Lines appended to the log file when a single file is followed.
MaxUpdates == 3

\* The fields of JobStatus in the order JobStatus::update stores them.
Fields == <<"cov", "ft", "corp", "exec_s", "corp_size">>

\* #[derive(Default)] struct JobStatus, every field with its initial value
\* as the only one in its modification order.
JobStatusNew ==
  [cov |-> <<Zero>>, ft |-> <<Zero>>, corp |-> <<Zero>>, exec_s |-> <<Zero>>,
   corp_size |-> <<Zero>>]

\* A spawned task waiting in next_line(); at counts the stores made of the
\* update in progress and log lists the lines it has parsed to a record.
TaskStart == [pc |-> "next_line", at |-> 0, log |-> <<>>]

\* The loop before the first load of update_metric! number p: acc is the
\* accumulator of max() or sum(), got the value loaded last, and view the
\* place in each modification order of the value loaded from it last.
LoopAt(p, view) ==
  [pc |-> "load", pass |-> p, j |-> 1,
   acc |-> IF Passes[p].policy = "max" THEN Unset ELSE Zero,
   got |-> Unset, view |-> view]

\* jobs_parser up to its loop, for a directory of n log files; loop is the
\* loop before its first update_metric!.
InitTasks(n, loop) ==
  /\ overflow_checks \in BOOLEAN
  /\ mode = "jobs"
  /\ proc = "running"
  /\ jobs = [i \in 1..n |-> JobStatusNew]
  /\ reader = [i \in 1..n |-> TaskStart]
  /\ agg = loop
  /\ gauges = [g \in GaugeNames |-> Unset]
  /\ nread = 0
  /\ last = NoLine
  /\ line = NoTest
  /\ outcome = NoOutcome

\* A directory with a single log file: one task and the loop, which has
\* loaded nothing yet.
InitFine ==
  InitTasks(Len(<<"a.log">>), LoopAt(1, <<[f \in DOMAIN JobStatusNew |-> 0]>>))

\* A directory with any number of log files.
InitSlots == \E n \in 0..MaxSources : InitTasks(n, PassStart(1))

\* A variant in which every task captured the index of the first log file.
SlotFirst(idx) == 1

\* jobs[idx]: the slot of the task spawned for log file idx.
Slot(idx) == idx

\* A variant that stores parsed.cov whatever the field.
storeCov(job, parsed, k) == [job EXCEPT ![Fields[k]] = Append(@, parsed.cov)]

\* The k-th store of JobStatus::update:
\* self.<field>.store(parsed.<field>, Ordering::Relaxed)
store(job, parsed, k) == [job EXCEPT ![Fields[k]] = Append(@, parsed[Fields[k]])]

\* The task after next_line() returned line l and the parser returned res:
\* stopped by a panic of the parser, in update() behind its first store,
\* or back in next_line() after `continue`.
TaskAfterLine(task, res, l) ==
  CASE res.kind = "Panic" -> [task EXCEPT !.pc = "panicked"]
    [] res.kind = "Ok"    -> [task EXCEPT !.pc = "update", !.at = 1, !.log = Append(@, l)]
    [] OTHER              -> task

\* The lines that may be appended next: the fuzzer writes the lines of
\* JobFeed in their order, over and over, and tail -f starts anywhere.
Appended(prev) ==
  IF prev = NoLine THEN 1..Len(JobFeed) ELSE {(prev % Len(JobFeed)) + 1}

\* next_line() returns a line, one of at most max; the task parses it and,
\* for a record, makes the first store of update().
TaskLine(idx, max) ==
  /\ proc = "running"
  /\ reader[idx].pc = "next_line"
  /\ nread < max
  /\ \E l \in Appended(last) :
       /\ last' = l
       /\ reader' = [reader EXCEPT
                       ![idx] = TaskAfterLine(@, JobOutcome(l, overflow_checks), l)]
       /\ jobs' = IF JobOutcome(l, overflow_checks).kind = "Ok"
                  THEN [jobs EXCEPT
                          ![Slot(idx)] = store(@, JobOutcome(l, overflow_checks).parsed, 1)]
                  ELSE jobs
  /\ nread' = nread + 1
  /\ UNCHANGED <<overflow_checks, mode, proc, agg, gauges, testVars>>

\* The next store of the update in progress; after the fifth the task is back
\* in next_line().
TaskStore(idx) ==
  /\ proc = "running"
  /\ reader[idx].pc = "update"
  /\ jobs' = [jobs EXCEPT
                ![Slot(idx)] =
                   store(@, JobOutcome(reader[idx].log[Len(reader[idx].log)],
                                       overflow_checks).parsed,
                         reader[idx].at + 1)]
  /\ reader' = IF reader[idx].at + 1 = Len(Fields)
               THEN [reader EXCEPT ![idx].pc = "next_line", ![idx].at = 0]
               ELSE [reader EXCEPT ![idx].at = @ + 1]
  /\ UNCHANGED <<overflow_checks, mode, proc, agg, gauges, nread, last, testVars>>

\* next_line() returns Ok(None) or Err: the loop and the task end.
TaskEnd(idx) ==
  /\ proc = "running"
  /\ reader[idx].pc = "next_line"
  /\ reader' = [reader EXCEPT ![idx].pc = "ended"]
  /\ UNCHANGED <<overflow_checks, mode, proc, jobs, agg, gauges, nread, last, testVars>>

\* A variant in which a load may return any value of the modification order.
VisibleAny(seen, latest) == 0..latest

\* The places of a modification order whose value a load may return, when
\* the same thread loaded the value at place seen before and the value at
\* place latest is the newest.
Visible(seen, latest) == seen..latest

\* One step of the fold of max() or sum() over the loaded values.
Fold(policy, acc, val, checks) ==
  IF policy = "max"
  THEN [val |-> IterMax(<<val>>, acc), panic |-> FALSE]
  ELSE IterSum(<<val>>, acc, checks)

\* The loop after the load of field f of slot agg.j returned val, the value
\* at place v, and the fold returned fd: stopped by the panic of an
\* overflowing sum, before the next load, before the next update_metric!,
\* or asleep after the fifth.
LoopAfterLoad(a, f, v, val, fd, n) ==
  IF fd.panic THEN [a EXCEPT !.pc = "panicked"]
  ELSE IF a.j < n
  THEN [a EXCEPT !.j = @ + 1, !.acc = fd.val, !.got = val, !.view[a.j][f] = v]
  ELSE IF a.pass < Len(Passes)
  THEN [LoopAt(a.pass + 1, [a.view EXCEPT ![a.j][f] = v]) EXCEPT !.got = val]
  ELSE [a EXCEPT !.pc = "sleep", !.acc = fd.val, !.got = val, !.view[a.j][f] = v]

\* What follows the load that returned val, the value at place v, and the
\* fold that returned fd: behind the load of the last job,
\* metrics::gauge!($metric).set(value as f64).  A panic of the sum is a
\* panic of main: the process is gone.
LoopFolded(p, v, val, fd) ==
  /\ agg' = LoopAfterLoad(agg, p.field, v, val, fd, Len(jobs))
  /\ proc' = IF fd.panic THEN "exited" ELSE proc
  /\ gauges' = IF ~fd.panic /\ agg.j = Len(jobs)
               THEN [gauges EXCEPT ![p.metric] = AsF64(fd.val)]
               ELSE gauges

\* job.$field.load(Ordering::Acquire) for the next job, and one step of the
\* fold of update_metric! p with the value loaded.
LoopLoad ==
  /\ proc = "running"
  /\ agg.pc = "load"
  /\ \E v \in Visible(agg.view[agg.j][Passes[agg.pass].field],
                      Len(jobs[agg.j][Passes[agg.pass].field]) - 1) :
       \E val \in {jobs[agg.j][Passes[agg.pass].field][v + 1]} :
         \E fd \in {Fold(Passes[agg.pass].policy, agg.acc, val, overflow_checks)} :
           LoopFolded(Passes[agg.pass], v, val, fd)
  /\ UNCHANGED <<overflow_checks, mode, jobs, reader, nread, last, testVars>>

\* A variant that joins the spawned tasks before the next round.
LoopWakeJoined ==
  /\ proc = "running"
  /\ agg.pc = "sleep"
  /\ \A i \in 1..Len(reader) : reader[i].pc \in {"ended", "panicked"}
  /\ agg' = LoopAt(1, agg.view)
  /\ UNCHANGED <<overflow_checks, mode, proc, jobs, reader, gauges, nread, last, testVars>>

\* tokio::time::sleep(1s) is over: the next round of the loop.
LoopWake ==
  /\ proc = "running"
  /\ agg.pc = "sleep"
  /\ agg' = LoopAt(1, agg.view)
  /\ UNCHANGED <<overflow_checks, mode, proc, jobs, reader, gauges, nread, last, testVars>>

\* The newest value of every field of a slot.
Latest(job) == [f \in DOMAIN job |-> job[f][Len(job[f])]]

\* One update_metric! taken as a whole, each load returning the newest
\* value: the loads touch different slots, each with its own writer.
LoopPass ==
  LET p == Passes[agg.pass]
      m == MetricValue(p.policy, [j \in 1..Len(jobs) |-> Latest(jobs[j])[p.field]],
                       overflow_checks)
  IN  /\ proc = "running"
      /\ agg.pc = "update_metric"
      /\ IF m.panic
         THEN /\ proc' = "exited"
              /\ agg' = [agg EXCEPT !.pc = "panicked"]
              /\ gauges' = gauges
         ELSE /\ proc' = proc
              /\ gauges' = [gauges EXCEPT ![p.metric] = AsF64(m.val)]
              /\ agg' = IF agg.pass < Len(Passes) THEN PassStart(agg.pass + 1)
                        ELSE [agg EXCEPT !.pc = "sleep"]
      /\ UNCHANGED <<overflow_checks, mode, jobs, reader, nread, last, testVars>>

\* One log file, every store and every load a step.
NextFine ==
  \/ \E idx \in 1..Len(reader) : TaskLine(idx, MaxUpdates)
  \/ \E idx \in 1..Len(reader) : TaskStore(idx)
  \/ \E idx \in 1..Len(reader) : TaskEnd(idx)
  \/ LoopLoad
  \/ LoopWake

SpecFine == InitFine /\ [][NextFine]_vars

\* Several log files, every store a step.
NextSlots ==
  \/ \E idx \in 1..Len(reader) : TaskLine(idx, MaxAppends)
  \/ \E idx \in 1..Len(reader) : TaskStore(idx)
  \/ \E idx \in 1..Len(reader) : TaskEnd(idx)
  \/ LoopPass
  \/ AggWake

SpecSlots == InitSlots /\ [][NextSlots]_vars

(***************************************************************************)
(* Properties of the publishing loop and of the readers.                   *)
(***************************************************************************)
\* The values of a sequence, as a set.
ValuesOf(vals) == {vals[j] : j \in 1..Len(vals)}

\* The greatest of the values of a non-empty sequence.
MaxOf(vals) == CHOOSE v \in ValuesOf(vals) : \A w \in ValuesOf(vals) : ~Less(v, w)

\* The sum of the values of a sequence, in unbounded arithmetic.
TrueSum(vals) ==
  LET upto[j \in 0..Len(vals)] == IF j = 0 THEN Zero ELSE Add(upto[j - 1], vals[j])
  IN  upto[Len(vals)]

\* 2^53: up to here every integer is an f64.
TwoPow53 == Big(0, 0, 0, 32, 0)

\* This step is update_metric! for a field reduced with the given policy.
PublishStep(policy) ==
  /\ mode = "jobs"
  /\ agg.pc = "update_metric"
  /\ Passes[agg.pass].policy = policy
  /\ agg' # agg

\* C1, as stated: with at least one Job Record, every update_metric! of a
\* max-reduced field (cov, ft, corp, corp_size) sets its gauge to the
\* maximum of the values it loaded.
C1_MaxOfLoaded ==
  [][ (PublishStep("max") /\ Len(jobs) >= 1)
        => gauges'[Passes[agg.pass].metric] = MaxOf(Loaded(Passes[agg.pass].field))
    ]_vars

\* C1, amended: fuzz_cov, fuzz_feat and fuzz_corp are set to the maximum of
\* the loaded values; fuzz_corp_size is set to that maximum when it is at
\* most 2^53, and to the f64 nearest to it (ties to even) when it is larger.
C1_MaxOfLoadedAsF64 ==
  [][ (PublishStep("max") /\ Len(jobs) >= 1)
        => LET p  == Passes[agg.pass]
               mx == MaxOf(Loaded(p.field))
           IN  /\ gauges'[p.metric] =
                    IF p.field = "corp_size" /\ Less(TwoPow53, mx) THEN AsF64(mx) ELSE mx
               /\ p.field # "corp_size" => ~Less(TwoPow53, mx)
    ]_vars

\* Two records with different values were reduced: fuzz_cov is the greater
\* coverage, and fuzz_corp_size is 2^53 for a greatest size of 2^53 + 1.
C1_Witness ==
  /\ mode = "jobs" /\ Len(jobs) = 2
  /\ jobs[1].cov = Small(50) /\ jobs[2].cov = Small(10)
  /\ jobs[1].corp_size = Big(1, 0, 0, 32, 0)
  /\ gauges["fuzz_cov"] = Small(50)
  /\ gauges["fuzz_corp_size"] = TwoPow53
  /\ agg.pc = "sleep"

\* C2, as stated: every update_metric! of exec_s sets fuzz_exec_s to the
\* arithmetic sum of the loaded values, for all values of the u32 range, and
\* leaves the loop (and the process) running.
C2_TrueSum ==
  [][ PublishStep("sum")
        => /\ proc' = "running"
           /\ agg'.pc # "panicked"
           /\ gauges'["fuzz_exec_s"] = TrueSum(Loaded("exec_s"))
    ]_vars

\* The lines of the feeds that are not recognized: in JobFeed the one with
\* "cov: abc"; in JournalFeed the one without "ft:" and the Format B line,
\* which has no "oom/timeout/crash:".
JobLinesNotRecognized == {3}

JournalLinesNotRecognized == {3, 4}

\* The lines of JournalFeed that are Format A lines.
JournalLinesRecognized == {1, 2}

\* C3: handling a line that is not recognized changes no field of any Job
\* Record (jobs mode), sets no gauge (journal mode), and leaves the reader
\* where it was, ready for the next line.
C3_NotRecognizedChangesNothing ==
  [][ ( /\ nread' = nread + 1
        /\ \/ mode = "jobs" /\ last' \in JobLinesNotRecognized
           \/ mode = "journal" /\ last' \in JournalLinesNotRecognized )
        => /\ jobs' = jobs
           /\ gauges' = gauges
           /\ reader' = reader
           /\ proc' = proc
    ]_vars

\* A reader has handled "cov: abc ..." after a record was stored, and the
\* record is still there.
C3_Witness ==
  /\ mode = "jobs" /\ nread = 2 /\ last \in JobLinesNotRecognized
  /\ \E j \in 1..Len(jobs) :
       /\ jobs[j] = update(JobStatusDefault, JobOutcomeChecked[1].parsed)
       /\ reader[j].pc = "next_line"

\* C9: with no log file, the loop never panics and is never blocked, every
\* gauge it has set so far is 0, and once it has gone through its five
\* update_metric! all five gauges are 0.
C9_ZeroSources ==
  (mode = "jobs" /\ Len(jobs) = 0)
    => /\ proc = "running"
       /\ agg.pc \in {"update_metric", "sleep"}
       /\ ENABLED (UpdateMetric \/ AggWake)
       /\ \A p \in 1..Len(Passes) :
            /\ gauges[Passes[p].metric] \in {Unset, Zero}
            /\ (agg.pc = "sleep" \/ p < agg.pass) => gauges[Passes[p].metric] = Zero

\* The loop has published for an empty directory and sleeps.
C9_Witness ==
  /\ mode = "jobs" /\ Len(jobs) = 0
  /\ agg.pc = "sleep"
  /\ \A p \in 1..Len(Passes) : gauges[Passes[p].metric] = Zero

\* C10, as stated: in journal mode, once a line has parsed, all nine gauges
\* hold the values of the line parsed last, fuzz_corp_size included.
C10_NineGauges ==
  (mode = "journal" /\ last \in JournalLinesRecognized)
    => LET p == JournalOutcome[last].parsed
       IN  /\ gauges["fuzz_cov"] = p.cov
           /\ gauges["fuzz_feat"] = p.ft
           /\ gauges["fuzz_corp"] = p.corp
           /\ gauges["fuzz_corp_size"] = p.corp_size
           /\ gauges["fuzz_exec_s"] = p.exec_s
           /\ gauges["fuzz_oom"] = p.oom
           /\ gauges["fuzz_timeout"] = p.timeout
           /\ gauges["fuzz_crash"] = p.crash
           /\ gauges["fuzz_time"] = p.time

(***************************************************************************)
(* Properties of the two grammars, over the family of lines.               *)
(***************************************************************************)
\* The text holds "cov:" somewhere.
HasCov(txt) ==
  \E i \in 1..Len(txt) :
    i + Len(T_cov) - 1 <= Len(txt) /\ SubSeq(txt, i, i + Len(T_cov) - 1) = T_cov

\* Every number on the line is a decimal numeral of the u32 range.
NumbersOk(d) == d.fld = 0 \/ Variants[d.tok].class = "ok"

\* All fields of Format A, in the documented order.
WellFormedA(d) == d.fmt = "A" /\ d.shape = "full" /\ NumbersOk(d)

\* What a well-formed Format A line says.
ExpectedA(d) ==
  Ok(Parsed(FieldTok(d, 1).val, FieldTok(d, 2).val, FieldTok(d, 3).val, Zero,
            FieldTok(d, 4).val, FieldTok(d, 5).val, FieldTok(d, 6).val,
            FieldTok(d, 7).val, FieldTok(d, 8).val))

\* All fields of Format B in order behind a prefix without "cov:", with the
\* colon after exec/s, and no size suffix or one whose product is a u64.
WellFormedB(d) ==
  /\ d.fmt = "B" /\ d.shape = "full" /\ NumbersOk(d) /\ d.colon
  /\ ~HasCov(Prefixes[d.pre])
  /\ Suffixes[d.suffix].class \in {"none", "ok"}

\* What a well-formed Format B line says.
ExpectedB(d) ==
  Ok(Parsed(FieldTok(d, 1).val, FieldTok(d, 2).val, FieldTok(d, 3).val,
            Suffixes[d.suffix].bytes, FieldTok(d, 4).val, Zero, Zero, Zero, Zero))

C5_FormatB ==
  (outcome.job # NotRun /\ WellFormedB(line)) => outcome.job = ExpectedB(line)

\* A line with /591Mb, further fields before exec/s: and rss: behind it has
\* been parsed to 591 * 1024 * 1024 bytes.
C5_Witness ==
  /\ WellFormedB(line) /\ line.suffix = 3 /\ line.mid = 2 /\ line.tail = 3
  /\ outcome.job = ExpectedB(line)
  /\ outcome.job.parsed.corp_size = Big(0, 9456, 0, 0, 0)

\* C6: two Format A lines that differ only in the colon after exec/s get
\* the same result from parse_fork_mode, and when the line is well-formed
\* behind a prefix without "cov:" that result is a record whose exec_s is the
\* number after exec/s.
C6_ColonOptional ==
  (line.fmt = "A" /\ outcome.twin # NotRun)
    => /\ outcome.fork = outcome.twin
       /\ (WellFormedA(line) /\ ~HasCov(Prefixes[line.pre]))
            => /\ outcome.fork.kind = "Ok"
               /\ outcome.fork.parsed.exec_s = FieldTok(line, 4).val

\* "exec/s 1464" and "exec/s: 1464" have both been parsed, to the same
\* record.
C6_Witness ==
  /\ WellFormedA(line) /\ ~line.colon /\ line.fld = 0
  /\ outcome.fork.kind = "Ok" /\ outcome.twin = outcome.fork
  /\ outcome.fork.parsed.exec_s = Small(1464)

\* C7, as stated: a Format B line whose size suffix is malformed ("/" not
\* followed by a number, or a number followed by a unit other than Kb, Mb,
\* b) is not recognized by parse_job_mode.
C7_MalformedSuffixFails ==
  ( /\ outcome.job # NotRun
    /\ line.fmt = "B"
    /\ Suffixes[line.suffix].class = "malformed" )
    => outcome.job = Err

\* C8, as stated: neither grammar panics on any line, and a record returned
\* for a line with a size suffix has corp_size = size * unit exactly.
C8_TotalAndExact ==
  /\ outcome.fork # Panic /\ outcome.twin # Panic /\ outcome.job # Panic
  /\ ( /\ outcome.job.kind = "Ok"
       /\ line.fmt = "B"
       /\ Suffixes[line.suffix].class \in {"ok", "overflow"} )
       => outcome.job.parsed.corp_size = Suffixes[line.suffix].bytes

(***************************************************************************)
(* Properties of the end of a stream.                                      *)
(***************************************************************************)
\* The task of log file i leaves its loop in this step.
StreamEnds(i) == reader[i].pc = "next_line" /\ reader'[i].pc = "ended"

\* C11: in jobs mode, the step in which the stream of one log file ends or
\* fails ends the task of that file and touches nothing else: every other
\* task, every Job Record, the publishing loop, the gauges and the process
\* are as before.  The task that ended never runs again: it stays ended and
\* its Job Record is never stored to again.
C11_OnlyThatReaderEnds ==
  [][ \A i \in 1..Len(reader) :
        /\ StreamEnds(i)
             => /\ \A j \in 1..Len(reader) : j # i => reader'[j] = reader[j]
                /\ jobs' = jobs
                /\ agg' = agg
                /\ gauges' = gauges
                /\ proc' = proc
                /\ nread' = nread
        /\ reader[i].pc = "ended"
             => /\ reader'[i].pc = "ended"
                /\ jobs'[i] = jobs[i]
    ]_vars

\* The stream of the first log file has ended before it delivered a record;
\* the task of the second file reads on and has stored a record, and the
\* loop has published that record.
C11_Witness ==
  /\ mode = "jobs" /\ Len(jobs) = 2 /\ proc = "running"
  /\ reader[1].pc = "ended" /\ jobs[1] = JobStatusDefault
  /\ reader[2].pc = "next_line"
  /\ jobs[2] = update(JobStatusDefault, JobOutcomeChecked[1].parsed)
  /\ agg.pc = "sleep"
  /\ gauges["fuzz_cov"] = Small(10) /\ gauges["fuzz_exec_s"] = Small(100)

\* C12, as stated: in either mode the end of a stream that has delivered
\* metrics leaves the process running and every gauge as it was, no gauge
\* that was set is ever unset,
\* and in jobs mode the Job Record of a task that ended keeps its values
\* and is loaded by every later update_metric!.
C12_StaleButPublished ==
  [][ /\ ( \/ /\ mode = "journal" /\ last \in JournalLinesRecognized
              /\ proc = "running" /\ nread' = nread /\ proc' # proc
           \/ \E i \in 1..Len(reader) : StreamEnds(i) )
        => (proc' = "running" /\ gauges' = gauges)
      /\ \A g \in GaugeNames : gauges[g] # Unset => gauges'[g] # Unset
      /\ \A i \in 1..Len(reader) :
           reader[i].pc = "ended"
             => /\ jobs'[i] = jobs[i]
                /\ Loaded("cov")[i] = jobs[i].cov
                /\ Loaded("exec_s")[i] = jobs[i].exec_s
    ]_vars

(***************************************************************************)
(* Properties of the stores and loads of a single log file.                *)
(***************************************************************************)
\* The lines the task of log file i has parsed to a record, in the order
\* it received them.
LinesOf(i) == reader[i].log

\* Field f of the v-th line the task of file i parsed to a record.
LineValue(i, f, v) == JobOutcome(LinesOf(i)[v], overflow_checks).parsed[f]

\* C13: every load of the loop from a field of a Job Record returns the
\* initial value or the value the task stored for one of its lines, and
\* that line is the one whose value the previous load from the same field
\* returned or a line the task received after it, never an earlier one.
C13_LineOrder ==
  [][ (agg.pc = "load" /\ agg' # agg)
        => LET f == Passes[agg.pass].field
               v == agg'.view[agg.j][f]
           IN  /\ v >= agg.view[agg.j][f]
               /\ v <= Len(LinesOf(agg.j))
               /\ agg'.got = IF v = 0 THEN Zero ELSE LineValue(agg.j, f, v)
    ]_vars

\* The values of the second line are stored, and the loop has just loaded
\* from cov, for the second time at least, the value of the first line.
C13_Witness ==
  /\ LinesOf(1) = <<1, 2>> /\ reader[1].pc = "next_line"
  /\ agg.pc = "load" /\ agg.pass = 2
  /\ agg.view[1]["cov"] = 1 /\ agg.got = Small(10)
  /\ gauges["fuzz_corp_size"] # Unset

\* The values field number k of the only Job Record may hold: the initial
\* 0 and that field of every line its task has parsed.
LineValues(k) ==
  {Zero} \cup {LineValue(1, Fields[k], v) : v \in 1..Len(LinesOf(1))}

\* C16, as stated: with one log file, every gauge the loop has set is 0 or
\* the value of its field in a line the task parsed.
C16_OnlyLineValues ==
  \A k \in 1..Len(Passes) :
    gauges[Passes[k].metric] \in {Unset} \cup LineValues(k)

\* C16, amended: with one log file, every gauge the loop has set is the f64
\* nearest to 0 or to the value of its field in a line the task parsed.
C16_OnlyLineValuesAsF64 ==
  \A k \in 1..Len(Passes) :
    gauges[Passes[k].metric] \in {Unset} \cup {AsF64(x) : x \in LineValues(k)}

\* One round of the loop has published the coverage of the second line
\* together with the throughput of the first.
C16_Witness ==
  /\ LinesOf(1) = <<1, 2>>
  /\ agg.pc = "sleep"
  /\ gauges["fuzz_cov"] = LineValue(1, "cov", 2)
  /\ gauges["fuzz_exec_s"] = LineValue(1, "exec_s", 1)
  /\ LineValue(1, "cov", 2) # LineValue(1, "cov", 1)
  /\ LineValue(1, "exec_s", 2) # LineValue(1, "exec_s", 1)

\* C17: while the process runs, the loop has a step to take wherever the
\* task is (in next_line(), between two stores of an update, stopped), the
\* task has its next store to take wherever the loop is (before any of its
\* loads, asleep), and a task in next_line() takes a line when there is one.
C17_NeverWait ==
  proc = "running"
    => /\ agg.pc \in {"load", "sleep"}
       /\ ENABLED (LoopLoad \/ LoopWake)
       /\ \A i \in 1..Len(reader) :
            /\ reader[i].pc = "update" => ENABLED TaskStore(i)
            /\ (reader[i].pc = "next_line" /\ nread < MaxUpdates)
                 => ENABLED TaskLine(i, MaxUpdates)

\* The loop is asleep while the task is between two stores of an update.
C17_Witness ==
  /\ proc = "running"
  /\ agg.pc = "sleep"
  /\ reader[1].pc = "update" /\ reader[1].at = 2
  /\ Len(LinesOf(1)) = 2

(***************************************************************************)
(* Properties of the slots of several log files.                           *)
(***************************************************************************)
\* C15: the number of slots and of tasks never changes, and a step that
\* changes slot i is a step of the task of log file i: that task is running
\* and moves, and no other task, no other slot and not the loop.
C15_SingleWriter ==
  [][ /\ Len(jobs') = Len(jobs)
      /\ Len(reader') = Len(reader)
      /\ \A i \in 1..Len(jobs) :
           jobs'[i] # jobs[i]
             => /\ reader[i].pc \in {"next_line", "update"}
                /\ reader'[i] # reader[i]
                /\ \A j \in 1..Len(jobs) :
                     j # i => (reader'[j] = reader[j] /\ jobs'[j] = jobs[j])
                /\ agg' = agg
                /\ gauges' = gauges
    ]_vars

\* The task of the second of two files has stored all five fields of a
\* line, the slot of the first file is as created, and the loop has
\* published in between.
C15_Witness ==
  /\ Len(jobs) = 2
  /\ reader[2].pc = "next_line" /\ LinesOf(2) = <<1>>
  /\ Latest(jobs[2]) = update(JobStatusDefault, JobOutcomeChecked[1].parsed)
  /\ jobs[1] = JobStatusNew
  /\ gauges["fuzz_cov"] = Small(10)

(***************************************************************************)
(* Properties of the loop once the tasks have stopped.                     *)
(***************************************************************************)
\* Every task has left its loop.
TasksStopped == \A i \in 1..Len(reader) : reader[i].pc \in {"ended", "panicked"}

\* C18, as stated: once every task has stopped, the loop keeps running and
\* each update_metric! sets its gauge to the reduction of the final values
\* of the Job Records: the maximum of cov, ft, corp and corp_size (as the
\* f64 nearest to it, which is what a gauge holds), and the sum of exec_s.
C18_FinalReduction ==
  [][ (mode = "jobs" /\ Len(jobs) >= 1 /\ TasksStopped /\ agg.pc = "update_metric")
        => /\ proc' = "running"
           /\ agg'.pc # "panicked"
           /\ agg' # agg
                => gauges'[Passes[agg.pass].metric] =
                     IF Passes[agg.pass].policy = "max"
                     THEN AsF64(MaxOf(Loaded(Passes[agg.pass].field)))
                     ELSE TrueSum(Loaded(Passes[agg.pass].field))
    ]_vars

(***************************************************************************)
(* Properties of the grammar each mode uses.                               *)
(***************************************************************************)
\* C14, as stated: a well-formed Format A line, with or without the colon
\* after exec/s, is parsed to a record in jobs mode, a well-formed Format B
\* line is parsed to a record in journal mode, and a line is parsed to a
\* record in one mode exactly when it is in the other.
C14_BothGrammars ==
  outcome.job # NotRun
    => /\ (WellFormedA(line) /\ ~HasCov(Prefixes[line.pre])) => outcome.job.kind = "Ok"
       /\ WellFormedB(line) => outcome.fork.kind = "Ok"
       /\ (outcome.fork.kind = "Ok") <=> (outcome.job.kind = "Ok")
====
